---- MODULE Spec2Model ----
(***************************************************************************)
(* Model of 7_iris_app.py: a Dash page with two attribute dropdowns, a     *)
(* numeric cluster-count input and an Apply button, and one callback,      *)
(* run_clustering, that fits k-means on a copy of the iris data and        *)
(* publishes a chart and a table.                                          *)
(*                                                                         *)
(* Python strings that the program builds (str(x), astype(str)) are        *)
(* modelled as sequences of one-character strings, so "10" is <<"1","0">>. *)
(* Measurements are kept in tenths of a centimetre.                        *)
(***************************************************************************)
EXTENDS Integers, Sequences, FiniteSets, TLC

VARIABLES
    frames,         \* the DataFrame objects alive in the process, by reference
    page_loaded,    \* whether the browser has loaded the layout
    x_dropdown,     \* value of dcc.Dropdown "x-dropdown"
    y_dropdown,     \* value of dcc.Dropdown "y-dropdown"
    cluster_input,  \* value of dbc.Input "cluster-input" (None when empty)
    n_clicks,       \* n_clicks of dbc.Button "apply-button" (None until clicked)
    pending,        \* callback requests dispatched and not yet answered
    my_graph,       \* figure of dcc.Graph "my-graph"
    my_table,       \* data of DataTable "my-table"
    last_call,      \* history: the most recent finished run_clustering call
    probe           \* scratch state of the category-order specification

vars == <<frames, page_loaded, x_dropdown, y_dropdown, cluster_input, n_clicks,
          pending, my_graph, my_table, last_call, probe>>

(***************************************************************************)
(* Bounds of the model.                                                    *)
(***************************************************************************)
\* rows of the dataset kept in the model (the bundled dataset has 150)
NumRows == 3
\* how many of the dropdown options the modelled user picks from
MaxAttr == 2
\* how often the Apply button is pressed
MaxClicks == 1
\* how far below zero the cluster counts the modelled user types go
MaxNegative == 1
\* largest cluster count drawn in the category-order specification
MaxOrderN == 14

\* A Python value that is an integer or None: <<n>> for the integer n, <<>> for None
None == <<>>
Some(n) == <<n>>
IsInt(v) == v # None
Val(v) == v[1]

(***************************************************************************)
(* Python built-ins used by the program.                                   *)
(***************************************************************************)
DigitChars == <<"0", "1", "2", "3", "4", "5", "6", "7", "8", "9">>

\* str(n) for an integer n >= 0: its decimal digits, most significant first
RECURSIVE PyStr(_)
PyStr(n) ==
    IF n < 10 THEN <<DigitChars[n + 1]>>
    ELSE Append(PyStr(n \div 10), DigitChars[(n % 10) + 1])

\* list(range(n)): 0, 1, ..., n-1 (empty when n <= 0)
PyRange(n) == [i \in 1..(IF n > 0 THEN n ELSE 0) |-> i - 1]

\* max(a, b): comparing None with an integer raises TypeError
PyMaxRaises(a, b) == ~IsInt(a) \/ ~IsInt(b)
PyMax(a, b) == IF Val(a) >= Val(b) THEN Val(a) ELSE Val(b)

(***************************************************************************)
(* The dataset.  A DataFrame is [columns: sequence of column names,        *)
(* rows: sequence of rows], a row being a function from the column names   *)
(* to the values.                                                          *)
(***************************************************************************)
IrisSample == <<
    <<51, 35, 14, 2, "setosa", 1>>,
    <<70, 32, 47, 14, "versicolor", 2>>,
    <<63, 33, 60, 25, "virginica", 3>>,
    <<49, 30, 14, 2, "setosa", 1>>,
    <<64, 32, 45, 15, "versicolor", 2>> >>

RawColumns == <<"sepal_length", "sepal_width", "petal_length", "petal_width",
                "species", "species_id">>

\* px.data.iris(), cut down to NumRows rows
PxDataIris ==
    [columns |-> RawColumns,
     rows |-> [i \in 1..NumRows |->
                 [c \in {RawColumns[j] : j \in 1..Len(RawColumns)} |->
                     LET j == CHOOSE k \in 1..Len(RawColumns) : RawColumns[k] = c
                     IN  IrisSample[((i - 1) % Len(IrisSample)) + 1][j]]]]

\* the columns= argument of iris_data.rename
ColumnRenames ==
    [sepal_length |-> "Sepal length (cm)",
     sepal_width  |-> "Sepal width (cm)",
     petal_length |-> "Petal length (cm)",
     petal_width  |-> "Petal width (cm)",
     species      |-> "Species",
     species_id   |-> "Species ID"]

\* DataFrame.rename(columns=m): columns named in m get their new name
Rename(df, m) ==
    LET new(c) == IF c \in DOMAIN m THEN m[c] ELSE c
        old(n) == CHOOSE c \in {df.columns[j] : j \in 1..Len(df.columns)} : new(c) = n
    IN  [columns |-> [j \in 1..Len(df.columns) |-> new(df.columns[j])],
         rows |-> [i \in 1..Len(df.rows) |->
                     [n \in {new(df.columns[j]) : j \in 1..Len(df.columns)} |->
                         df.rows[i][old(n)]]]]

\* iris_data right after the module has been imported
IrisLoaded == Rename(PxDataIris, ColumnRenames)

iris_cols == <<"Sepal length (cm)", "Sepal width (cm)",
               "Petal length (cm)", "Petal width (cm)">>

\* df[name] = values: adds the column, or overwrites it when it exists
SetColumn(df, name, values) ==
    [columns |-> IF \E j \in 1..Len(df.columns) : df.columns[j] = name
                 THEN df.columns ELSE Append(df.columns, name),
     rows |-> [i \in 1..Len(df.rows) |->
                 [c \in DOMAIN df.rows[i] \cup {name} |->
                     IF c = name THEN values[i] ELSE df.rows[i][c]]]]

\* df[[x, y]].values: one (x, y) pair per row
Values2(df, x, y) == [i \in 1..Len(df.rows) |-> <<df.rows[i][x], df.rows[i][y]>>]

\* df.to_dict("records"): the list of rows
to_dict_records(df) == df.rows

(***************************************************************************)
(* Objects.  iris_data is a module-level name bound to one DataFrame       *)
(* object; df is a local name of run_clustering.  frames maps a reference  *)
(* to the object it denotes, NoObject when none is alive.                  *)
(***************************************************************************)
IrisRef == "iris_data"
LocalRef == "df"
Refs == {IrisRef, LocalRef}
NoObject == [columns |-> <<>>, rows |-> <<>>]

iris_data == frames[IrisRef]

\* faulty variant of copy_deep: df = iris_data, a second name for the same object
copy_alias(heap, ref) == [heap |-> heap, ref |-> ref]

\* DataFrame.copy(deep=True): a new object with the same contents
copy_deep(heap, ref) ==
    [heap |-> [heap EXCEPT ![LocalRef] = heap[ref]], ref |-> LocalRef]

\* the local df goes out of scope when run_clustering returns or raises
Release(heap) == [heap EXCEPT ![LocalRef] = NoObject]

(***************************************************************************)
(* sklearn.cluster.KMeans, as far as the program relies on it.  No         *)
(* random_state is given, so any assignment of the rows to the clusters    *)
(* may come back.                                                          *)
(***************************************************************************)
KMeansNew(n) == [n_clusters |-> n]

\* fit raises ValueError for n_clusters < 1 and for more clusters than samples
FitRaises(k_means, X) == k_means.n_clusters < 1 \/ k_means.n_clusters > Len(X)

\* cluster_centers_[c]: the mean of the rows labelled c, kept as sums and a count
RECURSIVE SumOver(_, _, _, _, _)
SumOver(X, labels, c, d, i) ==
    IF i = 0 THEN 0
    ELSE SumOver(X, labels, c, d, i - 1) + (IF labels[i] = c THEN X[i][d] ELSE 0)

ClusterCenters(X, labels, k) ==
    [c \in 1..k |->
        [sum_x |-> SumOver(X, labels, c - 1, 1, Len(X)),
         sum_y |-> SumOver(X, labels, c - 1, 2, Len(X)),
         count |-> Cardinality({i \in 1..Len(X) : labels[i] = c - 1})]]

\* the fitted estimators k_means.fit(X) may leave behind
KMeansFits(k_means, X) ==
    {[n_clusters |-> k_means.n_clusters,
      labels_ |-> l,
      cluster_centers_ |-> ClusterCenters(X, l, k_means.n_clusters)] :
        l \in [1..Len(X) -> 0..(k_means.n_clusters - 1)]}

\* labels_.astype(str)
astype_str(labels) == [i \in 1..Len(labels) |-> PyStr(labels[i])]

(***************************************************************************)
(* The body of run_clustering, statement by statement.                     *)
(***************************************************************************)
\* faulty variant of ClampClusters: the requested count is used as it is
ClampNoFloor(num_clusters) == Val(num_clusters)

\* num_clusters = max(num_clusters, 1)
ClampClusters(num_clusters) == PyMax(num_clusters, Some(1))

\* faulty variant of ClusterColumn: clusters numbered from 1
ClusterColumnOneBased(labels) == astype_str([i \in 1..Len(labels) |-> labels[i] + 1])

\* df["Cluster"] = k_means.labels_.astype(str)
ClusterColumn(labels) == astype_str(labels)

\* s sorts before t as Python compares strings: character by character
RECURSIVE LexLess(_, _)
LexLess(s, t) ==
    IF s = <<>> THEN t # <<>>
    ELSE IF t = <<>> THEN FALSE
    ELSE LET cs == CHOOSE d \in 1..10 : DigitChars[d] = Head(s)
             ct == CHOOSE d \in 1..10 : DigitChars[d] = Head(t)
         IN  cs < ct \/ (cs = ct /\ LexLess(Tail(s), Tail(t)))

\* faulty variant of cluster_ids_sorted: sorted(str(x) for x in range(num_clusters))
cluster_ids_lexical(num_clusters) ==
    LET ids == {PyStr(PyRange(num_clusters)[i]) : i \in 1..Len(PyRange(num_clusters))}
    IN  [i \in 1..Cardinality(ids) |->
            CHOOSE s \in ids : Cardinality({t \in ids : LexLess(t, s)}) = i - 1]

\* cluster_ids_sorted = [str(x) for x in list(range(num_clusters))]
cluster_ids_sorted(num_clusters) ==
    [i \in 1..Len(PyRange(num_clusters)) |-> PyStr(PyRange(num_clusters)[i])]

\* faulty variant of ScatterColor: color="Species ID"
ScatterColorSpecies(df) == [i \in 1..Len(df.rows) |-> PyStr(df.rows[i]["Species ID"])]

\* the column px.scatter colours the points by (color="Cluster")
ScatterColor(df) == [i \in 1..Len(df.rows) |-> df.rows[i]["Cluster"]]

\* px.scatter(df, x=, y=, color="Cluster", category_orders={"Cluster": ids})
px_scatter(df, x_var, y_var, ids) ==
    [x |-> x_var, y |-> y_var,
     points |-> [i \in 1..Len(df.rows) |->
                   [x |-> df.rows[i][x_var], y |-> df.rows[i][y_var],
                    color |-> ScatterColor(df)[i]]],
     category_orders |-> ids,
     traces |-> <<>>]

\* faulty variant of centroid_df: built from labels_, one entry per row of the data
centroid_df_labels(k_means, x_var, y_var) ==
    [columns |-> <<x_var, y_var>>, rows |-> k_means.labels_]

\* centroid_df = pd.DataFrame(k_means.cluster_centers_, columns=[x_var, y_var])
centroid_df(k_means, x_var, y_var) ==
    [columns |-> <<x_var, y_var>>, rows |-> k_means.cluster_centers_]

\* go.Scatter(x=centroid_df[x_var], y=centroid_df[y_var], ..., name="Centroids")
centroid_fig(centroids, x_var, y_var) ==
    [name |-> "Centroids", mode |-> "markers", points |-> centroids.rows]

\* fig.add_trace(trace)
add_trace(fig, trace) == [fig EXCEPT !.traces = Append(@, trace)]

\* faulty variant of ReturnedTable: centroid_df.to_dict("records")
ReturnedTableCentroids(df, centroids) == to_dict_records(centroids)

\* the second value returned: df.to_dict("records")
ReturnedTable(df, centroids) == to_dict_records(df)

(***************************************************************************)
(* The page: layout defaults and the callback wiring.                      *)
(***************************************************************************)
EmptyFigure == [x |-> "", y |-> "", points |-> <<>>,
                category_orders |-> <<>>, traces |-> <<>>]
NoData == <<>>
NoCall == [x_var |-> "", y_var |-> "", num_clusters |-> None,
           n_clicks |-> None, n_clusters |-> None, raised |-> "not called"]
NoProbe == [num_clusters |-> None, ids |-> <<>>, i |-> 0, j |-> 0]

\* faulty variant of CallbackInputs: the x dropdown wired as Input instead of State
CallbackInputsWithX == {"apply-button", "x-dropdown"}

\* Input(...) properties: a change of one of them fires the callback
CallbackInputs == {"apply-button"}
\* State(...) properties: read when the callback fires, never firing it
CallbackStates == {"x-dropdown", "y-dropdown", "cluster-input"}
\* app.callback is given no prevent_initial_call
prevent_initial_call == FALSE

\* what the modelled user picks and types
AttrChoices == {iris_cols[i] : i \in 1..(IF MaxAttr < Len(iris_cols) THEN MaxAttr
                                           ELSE Len(iris_cols))}
TypedCounts == {None} \cup {Some(n) : n \in (0 - MaxNegative)..(NumRows + 1)}

\* faulty variant of Request: the two State dropdowns listed in the other order
RequestSwapped(x, y, n, c) == [x_var |-> y, y_var |-> x, num_clusters |-> n, n_clicks |-> c]

\* the arguments Dash passes: the State values and the Input value, in order
Request(x, y, n, c) == [x_var |-> x, y_var |-> y, num_clusters |-> n, n_clicks |-> c]

\* property prop of the page has changed: the callback fires if it is an Input
FireCallbacks(prop, x, y, n, c) ==
    IF prop \in CallbackInputs
    THEN pending' = pending \cup {Request(x, y, n, c)}
    ELSE prop \in CallbackStates /\ pending' = pending

Init ==
    /\ frames = [r \in Refs |-> IF r = IrisRef THEN IrisLoaded ELSE NoObject]
    /\ page_loaded = FALSE
    /\ x_dropdown = "Sepal length (cm)"
    /\ y_dropdown = "Sepal width (cm)"
    /\ cluster_input = Some(3)
    /\ n_clicks = None
    /\ pending = {}
    /\ my_graph = EmptyFigure
    /\ my_table = NoData
    /\ last_call = NoCall
    /\ probe = NoProbe

\* the browser loads the page; Dash makes the initial call of the callback
PageLoad ==
    /\ ~page_loaded
    /\ page_loaded' = TRUE
    /\ pending' = IF prevent_initial_call THEN pending
                  ELSE pending \cup {Request(x_dropdown, y_dropdown, cluster_input, n_clicks)}
    /\ UNCHANGED <<frames, x_dropdown, y_dropdown, cluster_input, n_clicks,
                   my_graph, my_table, last_call, probe>>

SetX(v) ==
    /\ page_loaded
    /\ v # x_dropdown
    /\ x_dropdown' = v
    /\ FireCallbacks("x-dropdown", v, y_dropdown, cluster_input, n_clicks)
    /\ UNCHANGED <<frames, page_loaded, y_dropdown, cluster_input, n_clicks,
                   my_graph, my_table, last_call, probe>>

SetY(v) ==
    /\ page_loaded
    /\ v # y_dropdown
    /\ y_dropdown' = v
    /\ FireCallbacks("y-dropdown", x_dropdown, v, cluster_input, n_clicks)
    /\ UNCHANGED <<frames, page_loaded, x_dropdown, cluster_input, n_clicks,
                   my_graph, my_table, last_call, probe>>

SetClusterInput(v) ==
    /\ page_loaded
    /\ v # cluster_input
    /\ cluster_input' = v
    /\ FireCallbacks("cluster-input", x_dropdown, y_dropdown, v, n_clicks)
    /\ UNCHANGED <<frames, page_loaded, x_dropdown, y_dropdown, n_clicks,
                   my_graph, my_table, last_call, probe>>

\* the user presses Apply: n_clicks goes up by one
ClickApply ==
    /\ page_loaded
    /\ (IF IsInt(n_clicks) THEN Val(n_clicks) ELSE 0) < MaxClicks
    /\ n_clicks' = Some((IF IsInt(n_clicks) THEN Val(n_clicks) ELSE 0) + 1)
    /\ FireCallbacks("apply-button", x_dropdown, y_dropdown, cluster_input, n_clicks')
    /\ UNCHANGED <<frames, page_loaded, x_dropdown, y_dropdown, cluster_input,
                   my_graph, my_table, last_call, probe>>

Called(r, n, raised) ==
    [x_var |-> r.x_var, y_var |-> r.y_var, num_clusters |-> r.num_clusters,
     n_clicks |-> r.n_clicks, n_clusters |-> n, raised |-> raised]

\* One call of run_clustering on the objects in heap, from its first statement
\* to its return or raise: the set of ways it can end.  n_clusters is what
\* KMeans was constructed with (None when the call did not get that far).
run_clustering(heap, x_var, y_var, num_clusters, clicks) ==
    IF PyMaxRaises(num_clusters, Some(1))
    THEN {[raised |-> "TypeError", n_clusters |-> None,
           fig |-> EmptyFigure, table |-> NoData, heap |-> heap]}
    ELSE LET clamped == ClampClusters(num_clusters)
             cp == copy_deep(heap, IrisRef)
             df == cp.ref
             k_means == KMeansNew(clamped)
             X == Values2(cp.heap[df], x_var, y_var)
         IN  IF FitRaises(k_means, X)
             THEN {[raised |-> "ValueError", n_clusters |-> Some(clamped),
                    fig |-> EmptyFigure, table |-> NoData, heap |-> Release(cp.heap)]}
             ELSE {LET labelled == [cp.heap EXCEPT ![df] =
                                     SetColumn(@, "Cluster", ClusterColumn(fitted.labels_))]
                       fig == px_scatter(labelled[df], x_var, y_var,
                                         cluster_ids_sorted(clamped))
                       centroids == centroid_df(fitted, x_var, y_var)
                   IN  [raised |-> "returned", n_clusters |-> Some(clamped),
                        fig |-> add_trace(fig, centroid_fig(centroids, x_var, y_var)),
                        table |-> ReturnedTable(labelled[df], centroids),
                        heap |-> Release(labelled)] :
                   fitted \in KMeansFits(k_means, X)}

\* The server runs the callback for request r and the browser applies the
\* response: both outputs when the call returned, nothing when it raised.
RunClustering(r) ==
    /\ r \in pending
    /\ pending' = pending \ {r}
    /\ \E out \in run_clustering(frames, r.x_var, r.y_var, r.num_clusters, r.n_clicks) :
          /\ frames' = out.heap
          /\ last_call' = Called(r, out.n_clusters, out.raised)
          /\ IF out.raised = "returned"
             THEN my_graph' = out.fig /\ my_table' = out.table
             ELSE UNCHANGED <<my_graph, my_table>>
    /\ UNCHANGED <<page_loaded, x_dropdown, y_dropdown, cluster_input, n_clicks, probe>>

Next ==
    \/ PageLoad
    \/ \E v \in AttrChoices : SetX(v)
    \/ \E v \in AttrChoices : SetY(v)
    \/ \E v \in TypedCounts : SetClusterInput(v)
    \/ ClickApply
    \/ \E r \in pending : RunClustering(r)

Spec == Init /\ [][Next]_vars

\* The server answers every request it has accepted.  The only steps of Next
\* that take a request out of pending are those of RunClustering, so this is
\* weak fairness of the callback's execution.
Answered == \E r \in pending : pending' = pending \ {r}
FairSpec == Spec /\ WF_pending(Answered)

(***************************************************************************)
(* The category order on its own: the cluster count is drawn, clamped and  *)
(* turned into the category order, and two of its positions are picked.    *)
(***************************************************************************)
InitOrder ==
    /\ frames = [r \in Refs |-> IF r = IrisRef THEN IrisLoaded ELSE NoObject]
    /\ page_loaded = FALSE
    /\ x_dropdown = "Sepal length (cm)"
    /\ y_dropdown = "Sepal width (cm)"
    /\ cluster_input = Some(3)
    /\ n_clicks = None
    /\ pending = {}
    /\ my_graph = EmptyFigure
    /\ my_table = NoData
    /\ last_call = NoCall
    /\ probe \in {[num_clusters |-> Some(n), ids |-> <<>>, i |-> 0, j |-> 0] :
                    n \in (0 - MaxNegative)..MaxOrderN}

BuildOrder ==
    /\ probe.ids = <<>>
    /\ probe' = [probe EXCEPT !.ids = cluster_ids_sorted(ClampClusters(probe.num_clusters))]
    /\ UNCHANGED <<frames, page_loaded, x_dropdown, y_dropdown, cluster_input, n_clicks,
                   pending, my_graph, my_table, last_call>>

PickPair(i, j) ==
    /\ probe.ids # <<>>
    /\ i < j
    /\ j <= Len(probe.ids)
    /\ probe' = [probe EXCEPT !.i = i, !.j = j]
    /\ UNCHANGED <<frames, page_loaded, x_dropdown, y_dropdown, cluster_input, n_clicks,
                   pending, my_graph, my_table, last_call>>

NextOrder ==
    \/ BuildOrder
    \/ \E i, j \in 1..MaxOrderN : PickPair(i, j)

SpecOrder == InitOrder /\ [][NextOrder]_vars

(***************************************************************************)
(* Vocabulary of the properties.                                           *)
(***************************************************************************)
\* int(s) for a string of decimal digits, read digit by digit
RECURSIVE ParseInt(_)
ParseInt(s) ==
    IF s = <<>> THEN 0
    ELSE 10 * ParseInt(SubSeq(s, 1, Len(s) - 1))
         + (CHOOSE d \in 0..9 : DigitChars[d + 1] = s[Len(s)])

\* s is the string form of an integer >= 0: digits, no superfluous leading zero
IsDecimal(s) ==
    /\ Len(s) >= 1
    /\ \A p \in 1..Len(s) : \E d \in 1..10 : DigitChars[d] = s[p]
    /\ (Len(s) > 1 => s[1] # "0")

\* the effective cluster count for the requested integer n, as the claims give it
Effective(n) == IF n <= 0 THEN 1 ELSE n

Returned == last_call.raised = "returned"
ClickValues == {None} \cup {Some(c) : c \in 1..(MaxClicks + 1)}

\* what happens in a step
Started == pending' \ pending
Finished == pending \ pending'
InitialCall == ~page_loaded /\ page_loaded'
TriggerFired == n_clicks' # n_clicks
WidgetsChanged ==
    x_dropdown' # x_dropdown \/ y_dropdown' # y_dropdown \/ cluster_input' # cluster_input
OutputsUnchanged == my_graph' = my_graph /\ my_table' = my_table

(***************************************************************************)
(* C1. Whenever run_clustering constructs KMeans, the cluster count it     *)
(* passes is max(n, 1) for the requested integer n: 1 when n <= 0, n when  *)
(* n >= 1.                                                                 *)
(***************************************************************************)
C1_ClampIsMaxWithOne ==
    IsInt(last_call.n_clusters) =>
        /\ IsInt(last_call.num_clusters)
        /\ Val(last_call.n_clusters) = Effective(Val(last_call.num_clusters))

C1_Witness ==
    /\ Returned
    /\ last_call.num_clusters = Some(0 - 1)
    /\ last_call.n_clusters = Some(1)

(***************************************************************************)
(* C2. Every finished run, whatever the cluster-count field held (a        *)
(* positive, zero or negative integer, or nothing), reached the clustering *)
(* step with an effective cluster count of at least 1.                     *)
(***************************************************************************)
C2_EveryRunReachesClustering ==
    last_call # NoCall =>
        /\ IsInt(last_call.n_clusters)
        /\ Val(last_call.n_clusters) >= 1

(***************************************************************************)
(* C3. The table a run returns has as many rows as the base dataset.       *)
(***************************************************************************)
C3_TableRowCount ==
    (Returned \/ my_table # NoData) =>
        /\ Len(my_table) = NumRows
        /\ Len(my_table) = Len(IrisLoaded.rows)

C3_Witness ==
    /\ Returned
    /\ last_call.n_clusters = Some(1)
    /\ last_call.x_var # "Sepal length (cm)"
    /\ Len(my_table) = NumRows

(***************************************************************************)
(* C4. The chart and the table on the page come from the same run and the  *)
(* same fit: both are empty, or the chart colours row i by the Cluster     *)
(* value of row i of the table, plots the table's values of the two chosen *)
(* columns, and its centroids are those of the table's cluster assignment. *)
(***************************************************************************)
C4_ChartTableConsistent ==
    \/ my_graph = EmptyFigure /\ my_table = NoData
    \/ /\ my_graph # EmptyFigure
       /\ my_table # NoData
       /\ Len(my_graph.points) = Len(my_table)
       /\ \A i \in 1..Len(my_table) :
             /\ my_graph.points[i].color = my_table[i]["Cluster"]
             /\ my_graph.points[i].x = my_table[i][my_graph.x]
             /\ my_graph.points[i].y = my_table[i][my_graph.y]
       /\ Len(my_graph.traces) = 1
       /\ my_graph.traces[1].points =
             ClusterCenters([i \in 1..Len(my_table) |->
                                <<my_table[i][my_graph.x], my_table[i][my_graph.y]>>],
                            [i \in 1..Len(my_table) |-> ParseInt(my_table[i]["Cluster"])],
                            Len(my_graph.category_orders))

C4_Witness ==
    /\ Returned
    /\ pending # {}
    /\ Len(my_graph.category_orders) = 2
    /\ my_table[1]["Cluster"] # my_table[2]["Cluster"]
    /\ my_graph.points[1].color = my_table[1]["Cluster"]

(***************************************************************************)
(* C5. iris_data always has the rows and the columns it had after loading, *)
(* whatever runs have been made and in whatever order they finished.       *)
(***************************************************************************)
C5_BaseDatasetUnchanged ==
    /\ iris_data.columns = IrisLoaded.columns
    /\ iris_data = IrisLoaded

C5_Witness ==
    /\ Returned
    /\ IsInt(last_call.n_clicks)
    /\ \E r \in pending : ~IsInt(r.n_clicks)
    /\ DOMAIN my_table[1] # DOMAIN iris_data.rows[1]

(***************************************************************************)
(* C6. For every effective cluster count N >= 1 the category order is      *)
(* "0", "1", ..., "N-1": N entries, the i-th being the string form of      *)
(* i - 1, so increasing as numbers, without duplicates.                    *)
(***************************************************************************)
C6_CategoryOrderNumeric ==
    probe.ids # <<>> =>
        /\ Len(probe.ids) = Effective(Val(probe.num_clusters))
        /\ \A i \in 1..Len(probe.ids) :
              IsDecimal(probe.ids[i]) /\ ParseInt(probe.ids[i]) = i - 1
        /\ \A i, j \in 1..Len(probe.ids) : i # j => probe.ids[i] # probe.ids[j]

C6_Witness ==
    /\ Len(probe.ids) = 12
    /\ probe.i = 3 /\ probe.j = 11
    /\ probe.ids[3] = <<"2">>
    /\ probe.ids[11] = <<"1", "0">>
    /\ LexLess(probe.ids[11], probe.ids[3])
    /\ probe.ids[12] = <<"1", "1">>

(***************************************************************************)
(* C7. After a run that returned, the Centroids trace of the chart has as  *)
(* many points as the effective cluster count; a requested count of 0      *)
(* gives 1 point.                                                          *)
(***************************************************************************)
C7_CentroidCount ==
    Returned =>
        /\ Len(my_graph.traces) = 1
        /\ my_graph.traces[1].name = "Centroids"
        /\ Len(my_graph.traces[1].points) = Effective(Val(last_call.num_clusters))

C7_Witness ==
    /\ Returned
    /\ last_call.num_clusters = Some(0)
    /\ Len(my_graph.traces[1].points) = 1

(***************************************************************************)
(* C8. A run starts only when the page is loaded (Dash's initial call of   *)
(* the callback) or when the Apply button is pressed; it gets the widget   *)
(* values of that moment; changing a dropdown or the cluster count without *)
(* pressing Apply starts no run and leaves chart and table as they are;    *)
(* and the ways a run can end do not depend on the click count it is       *)
(* given.                                                                  *)
(***************************************************************************)
StartedWithCurrentValues ==
    \A r \in Started :
        /\ r.x_var = x_dropdown'
        /\ r.y_var = y_dropdown'
        /\ r.num_clusters = cluster_input'
        /\ r.n_clicks = n_clicks'

WidgetChangeIsSilent ==
    (WidgetsChanged /\ ~TriggerFired) =>
        (OutputsUnchanged /\ pending' = pending /\ last_call' = last_call)

ClickCountUnused ==
    \A r \in Started : \A c \in ClickValues :
        run_clustering(frames', r.x_var, r.y_var, r.num_clusters, c)
            = run_clustering(frames', r.x_var, r.y_var, r.num_clusters, r.n_clicks)

C8_RunsOnPageLoadOrTrigger ==
    [][/\ Started # {} => (InitialCall \/ TriggerFired)
       /\ StartedWithCurrentValues
       /\ WidgetChangeIsSilent
       /\ ClickCountUnused]_vars

\* C8 as the specification words it: nothing but the trigger starts a run
C8_RunsOnlyOnTrigger ==
    [][/\ Started # {} => TriggerFired
       /\ StartedWithCurrentValues
       /\ WidgetChangeIsSilent
       /\ ClickCountUnused]_vars

C8_Witness ==
    /\ Returned
    /\ last_call.n_clicks = Some(1)
    /\ last_call.x_var # x_dropdown
    /\ my_graph.x = last_call.x_var
    /\ last_call.num_clusters # cluster_input

(***************************************************************************)
(* C9. Each run goes from started to finished in one step of the page:     *)
(* runs start one at a time, on page load or on a trigger, and several may *)
(* be under way together; a run that returns puts its whole result, chart  *)
(* and table together, on the page; a run that raises (TypeError for an    *)
(* empty cluster-count field, ValueError for more clusters than rows)      *)
(* leaves the page as it was; nothing else changes chart or table; a run   *)
(* that has started can finish in every state, and every run that starts   *)
(* does finish.                                                            *)
(***************************************************************************)
FinishedRun(r) ==
    /\ last_call' = Called(r, last_call'.n_clusters, last_call'.raised)
    /\ last_call'.raised \in {"returned", "TypeError", "ValueError"}
    /\ last_call'.raised = "TypeError" <=> ~IsInt(r.num_clusters)
    /\ last_call'.raised = "ValueError" <=>
          (IsInt(r.num_clusters) /\ Effective(Val(r.num_clusters)) > NumRows)
    /\ last_call'.raised = "returned" =>
          /\ my_graph' # EmptyFigure /\ my_table' # NoData
          /\ my_graph'.x = r.x_var /\ my_graph'.y = r.y_var
          /\ Len(my_graph'.category_orders) = Effective(Val(r.num_clusters))
          /\ C4_ChartTableConsistent'
    /\ last_call'.raised # "returned" => OutputsUnchanged

UnderWay(c) == \E r \in pending : r.n_clicks = c

C10_LabelsInRange ==
    Returned =>
        LET N == Effective(Val(last_call.num_clusters))
        IN  \A i \in 1..Len(my_table) :
                LET label == my_table[i]["Cluster"]
                IN  /\ IsDecimal(label)
                    /\ ParseInt(label) \in 0..(N - 1)
                    /\ \E p \in 1..Len(my_graph.category_orders) :
                          my_graph.category_orders[p] = label
                    /\ (N = 1 => label = <<"0">>)

C10_Witness ==
    /\ Returned
    /\ last_call.num_clusters = Some(2)
    /\ my_table[1]["Cluster"] = <<"1">>
    /\ my_table[2]["Cluster"] = <<"0">>
    /\ my_graph.category_orders = << <<"0">>, <<"1">> >>

====
